---- MODULE Spec2Model ----
(***************************************************************************)
(* Model of app.py: a Flask front-end that delegates two-factor            *)
(* authentication to Duo's hosted redirect flow.                           *)
(*                                                                         *)
(* Python values are encoded as sequences of strings whose first element   *)
(* is the type tag: None is <<"None">>, the string "ab" is                 *)
(* <<"str","a","b">>, a flat dict {k: v} is <<"dict",k,v>>.  A session, a  *)
(* query string, a form and the configuration file are Python dicts:       *)
(* functions whose domain is the set of keys present.                      *)
(***************************************************************************)
EXTENDS Integers, Sequences, FiniteSets, TLC

\* ------------------------------------------------------------------------
\* Bounds
\* ------------------------------------------------------------------------
MaxNonce == 2      \* number of state nonces generate_state() hands out
MaxLen == 2        \* longest username typed into the form
MaxDefects == 1    \* defective fields in a configuration file

\* ------------------------------------------------------------------------
\* Python values
\* ------------------------------------------------------------------------
PyNone == <<"None">>
Str(s) == <<"str">> \o s
EmptyStr == Str(<<>>)
EmptyDict == <<"dict">>

\* Python truthiness: None, "" and {} are falsy.
Truthy(v) == Len(v) > 1

\* A Python dict with no key.
NoKeys == [k \in {} |-> PyNone]
Get(d, k) == IF k \in DOMAIN d THEN d[k] ELSE PyNone
GetDefault(d, k, dflt) == IF k \in DOMAIN d THEN d[k] ELSE dflt
Put(d, k, v) == [x \in (DOMAIN d) \cup {k} |-> IF x = k THEN v ELSE d[x]]
Pop(d, k) == [x \in (DOMAIN d) \ {k} |-> d[x]]

\* str.strip() on the characters of a string; " " is the whitespace.
RECURSIVE LStrip(_)
LStrip(s) == IF s # <<>> /\ Head(s) = " " THEN LStrip(Tail(s)) ELSE s
RECURSIVE RStrip(_)
RStrip(s) ==
    IF s # <<>> /\ s[Len(s)] = " " THEN RStrip(SubSeq(s, 1, Len(s) - 1)) ELSE s
\* Variant that trims nothing.
strip_Nothing(v) == v
strip(v) == Str(RStrip(LStrip(Tail(v))))

\* ------------------------------------------------------------------------
\* Configuration loading (module level of app.py)
\* ------------------------------------------------------------------------
REQUIRED_KEYS ==
    <<"client_id", "client_secret", "api_hostname", "redirect_uri", "flask_secret_key">>
PLACEHOLDER_KEYS == <<"client_id", "client_secret", "api_hostname", "flask_secret_key">>
PLACEHOLDER_VALUES ==
    [k \in {PLACEHOLDER_KEYS[i] : i \in DOMAIN PLACEHOLDER_KEYS} |->
        CASE k = "client_id" -> Str(<<"DIXXXXXXXXXXXXXXXXXX">>)
          [] k = "client_secret" -> Str(<<"your-duo-client-secret-here">>)
          [] k = "api_hostname" -> Str(<<"api-XXXXXXXX.duosecurity.com">>)
          [] k = "flask_secret_key" -> Str(<<"change-me-to-a-random-secret-string">>)]
FALLBACK_KEY == Str(<<"fallback-for-error-display-only">>)

RequiredSet == {REQUIRED_KEYS[i] : i \in DOMAIN REQUIRED_KEYS}
RealValue(k) == Str(<<"real", k>>)

\* The subsequence of keys that satisfy P, in the order of keys.
RECURSIVE SelectKeys(_, _)
SelectKeys(keys, bad) ==
    IF keys = <<>> THEN <<>>
    ELSE (IF Head(keys) \in bad THEN <<Head(keys)>> ELSE <<>>)
         \o SelectKeys(Tail(keys), bad)

\* Variant that takes an empty value for a present one.
MissingKeys_AbsentOnly(config) ==
    SelectKeys(REQUIRED_KEYS, {k \in RequiredSet : k \notin DOMAIN config})

\* missing = [k for k in REQUIRED_KEYS if k not in config or not config[k]]
MissingKeys(config) ==
    SelectKeys(REQUIRED_KEYS,
               {k \in RequiredSet : k \notin DOMAIN config \/ ~Truthy(config[k])})

\* unchanged = [k for k, v in PLACEHOLDER_VALUES.items() if config.get(k) == v]
UnchangedKeys(config) ==
    SelectKeys(PLACEHOLDER_KEYS,
               {k \in DOMAIN PLACEHOLDER_VALUES : Get(config, k) = PLACEHOLDER_VALUES[k]})

\* What the try block of the loader leaves in config_error, duo_client and
\* app.secret_key for a given configuration file.  file.status tells whether
\* open()/json.load() succeeded, file.ctor whether duo_universal.Client()
\* accepted the values.
LoadConfig(file) ==
    LET none == [config_error |-> PyNone, duo_client |-> FALSE, secret_key |-> PyNone]
        loaded ==
            IF file.status = "notfound"
            THEN [none EXCEPT !.config_error = Str(<<"config.json not found">>)]
            ELSE IF file.status = "badjson"
            THEN [none EXCEPT !.config_error = Str(<<"config.json contains invalid JSON">>)]
            ELSE IF MissingKeys(file.config) # <<>>
            THEN [none EXCEPT !.config_error =
                      Str(<<"Missing required config keys">> \o MissingKeys(file.config))]
            ELSE IF UnchangedKeys(file.config) # <<>>
            THEN [none EXCEPT !.config_error =
                      Str(<<"Placeholder values detected">> \o UnchangedKeys(file.config))]
            ELSE IF file.ctor = "raise"
            THEN [config_error |-> Str(<<"Failed to initialize Duo client">>),
                  duo_client |-> FALSE,
                  secret_key |-> file.config["flask_secret_key"]]
            ELSE [config_error |-> PyNone,
                  duo_client |-> TRUE,
                  secret_key |-> file.config["flask_secret_key"]]
    IN  IF loaded.secret_key = PyNone
        THEN [loaded EXCEPT !.secret_key = FALLBACK_KEY]
        ELSE loaded

\* The configuration files the model starts from: every field is its real
\* value, absent, empty or (where a placeholder is known) the placeholder,
\* with at most MaxDefects fields not real.
FieldValues(k) ==
    {PyNone, EmptyStr, RealValue(k)}
    \cup (IF k \in DOMAIN PLACEHOLDER_VALUES THEN {PLACEHOLDER_VALUES[k]} ELSE {})
FieldChoices ==
    {c \in [RequiredSet -> UNION {FieldValues(k) : k \in RequiredSet}] :
        /\ \A k \in RequiredSet : c[k] \in FieldValues(k)
        /\ Cardinality({k \in RequiredSet : c[k] # RealValue(k)}) <= MaxDefects}
ConfigOf(c) == [k \in {x \in RequiredSet : c[x] # PyNone} |-> c[k]]
ConfigFiles ==
    {[status |-> "notfound", config |-> NoKeys, ctor |-> "ok"],
     [status |-> "badjson", config |-> NoKeys, ctor |-> "ok"]}
    \cup {[status |-> "ok", config |-> ConfigOf(c), ctor |-> "ok"] : c \in FieldChoices}
    \cup {[status |-> "ok", config |-> ConfigOf([k \in RequiredSet |-> RealValue(k)]),
           ctor |-> "raise"]}

\* ------------------------------------------------------------------------
\* Identity provider client (duo_universal.Client) as the routes use it
\* ------------------------------------------------------------------------
NonceChars == <<"1", "2", "3", "4", "5", "6", "7", "8">>
\* generate_state(): the i-th call returns a value no earlier call returned.
generate_state(i) == Str(<<"n", NonceChars[i]>>)
Nonces == {generate_state(i) : i \in 1..MaxNonce}

\* create_auth_url(username, state): the URL carries both arguments.
create_auth_url(username, state) ==
    Str(<<"https://duo/authorize?user=">> \o Tail(username)
        \o <<"&state=">> \o Tail(state))

\* Authorization codes a callback can carry: one the provider issued and one
\* it did not.
ValidCode == Str(<<"ABC">>)
BadCode == Str(<<"XYZ">>)

\* Payloads exchange_authorization_code_for_2fa_result can return: a dict
\* with a "response" entry, a dict without one, and a value that is not a
\* dict.  items is the dict's content, text is str() of the payload.
AllowResponse == <<"dict", "result", "allow">>
ExchangeResults ==
    {[isdict |-> TRUE,
      items |-> [k \in {"response", "stat"} |->
                    IF k = "response" THEN AllowResponse ELSE Str(<<"OK">>)],
      text |-> Str(<<"{'response': {'result': 'allow'}, 'stat': 'OK'}">>)],
     [isdict |-> TRUE,
      items |-> [k \in {"stat"} |-> Str(<<"OK">>)],
      text |-> Str(<<"{'stat': 'OK'}">>)],
     [isdict |-> FALSE,
      items |-> NoKeys,
      text |-> Str(<<"['allow']">>)]}
NoResult == [isdict |-> FALSE, items |-> NoKeys, text |-> PyNone]

\* What one call of the exchange can do: raise, or return a payload.  A code
\* the provider did not issue always raises; a valid one may still raise
\* (network failure, denied push).
ExchangeOutcomes(duo_code) ==
    {[raised |-> TRUE, result |-> NoResult]}
    \cup (IF duo_code = ValidCode
          THEN {[raised |-> FALSE, result |-> r] : r \in ExchangeResults}
          ELSE {})
HealthOutcomes == {"ok", "raise"}

\* ------------------------------------------------------------------------
\* Responses
\* ------------------------------------------------------------------------
Render(page, status, error, user, auth_result) ==
    [status |-> status, page |-> page, location |-> PyNone,
     error |-> error, user |-> user, auth_result |-> auth_result]
Redirect(location) ==
    [status |-> 302, page |-> "redirect", location |-> location,
     error |-> PyNone, user |-> PyNone, auth_result |-> PyNone]
url_for(endpoint) ==
    IF endpoint = "dashboard" THEN Str(<<"/dashboard">>) ELSE Str(<<"/">>)
ErrorPage(config_error) == Render("error.html", 500, config_error, PyNone, PyNone)
NoExchange == [called |-> FALSE, duo_code |-> PyNone, username |-> PyNone, raised |-> FALSE]

\* ------------------------------------------------------------------------
\* Route handlers: the outcome of one request as a function of what the
\* handler reads.  sess is the session after the request, trace the checks
\* and provider calls the handler went through, in order.
\* ------------------------------------------------------------------------
index(config_error, sess) ==
    IF Truthy(config_error)
    THEN [resp |-> ErrorPage(config_error), sess |-> sess,
          trace |-> <<"config_error">>, exch |-> NoExchange]
    ELSE IF Truthy(Get(sess, "authenticated_user"))
    THEN [resp |-> Redirect(url_for("dashboard")), sess |-> sess,
          trace |-> <<"config_error">>, exch |-> NoExchange]
    ELSE [resp |-> Render("login.html", 200, PyNone, PyNone, PyNone), sess |-> sess,
          trace |-> <<"config_error">>, exch |-> NoExchange]

\* if not username
UsernameMissing(username) == ~Truthy(username)

\* Variant that keeps a nonce the session already holds.
StorePendingLogin_KeepsNonce(sess, state, username) ==
    IF "duo_state" \in DOMAIN sess THEN Put(sess, "duo_username", username)
    ELSE Put(Put(sess, "duo_state", state), "duo_username", username)

\* session["duo_state"] = state; session["duo_username"] = username
StorePendingLogin(sess, state, username) ==
    Put(Put(sess, "duo_state", state), "duo_username", username)

\* Variant that stores the Pending Login before the health check.
login_StoresFirst(config_error, sess, form, health, state) ==
    LET username == strip(GetDefault(form, "username", EmptyStr)) IN
    IF Truthy(config_error)
    THEN [resp |-> ErrorPage(config_error), sess |-> sess,
          trace |-> <<"config_error">>, exch |-> NoExchange]
    ELSE IF UsernameMissing(username)
    THEN [resp |-> Render("login.html", 200, Str(<<"Username is required.">>),
                          PyNone, PyNone),
          sess |-> sess,
          trace |-> <<"config_error", "username">>, exch |-> NoExchange]
    ELSE IF health = "raise"
    THEN [resp |-> Render("login.html", 200, Str(<<"Duo health check failed">>),
                          username, PyNone),
          sess |-> StorePendingLogin(sess, state, username),
          trace |-> <<"config_error", "username", "health_check">>,
          exch |-> NoExchange]
    ELSE [resp |-> Redirect(create_auth_url(username, state)),
          sess |-> StorePendingLogin(sess, state, username),
          trace |-> <<"config_error", "username", "health_check",
                      "generate_state", "create_auth_url">>,
          exch |-> NoExchange]

login(config_error, sess, form, health, state) ==
    LET username == strip(GetDefault(form, "username", EmptyStr)) IN
    IF Truthy(config_error)
    THEN [resp |-> ErrorPage(config_error), sess |-> sess,
          trace |-> <<"config_error">>, exch |-> NoExchange]
    ELSE IF UsernameMissing(username)
    THEN [resp |-> Render("login.html", 200, Str(<<"Username is required.">>),
                          PyNone, PyNone),
          sess |-> sess,
          trace |-> <<"config_error", "username">>, exch |-> NoExchange]
    ELSE IF health = "raise"
    THEN [resp |-> Render("login.html", 200, Str(<<"Duo health check failed">>),
                          username, PyNone),
          sess |-> sess,
          trace |-> <<"config_error", "username", "health_check">>,
          exch |-> NoExchange]
    ELSE [resp |-> Redirect(create_auth_url(username, state)),
          sess |-> StorePendingLogin(sess, state, username),
          trace |-> <<"config_error", "username", "health_check",
                      "generate_state", "create_auth_url">>,
          exch |-> NoExchange]

\* Variant that checks the code only.
ParamsMissing_CodeOnly(duo_code, state) == ~Truthy(duo_code)

\* if not duo_code or not state
ParamsMissing(duo_code, state) == ~Truthy(duo_code) \/ ~Truthy(state)

\* Variants of the state check: one that only looks for a stored nonce, one
\* that lets a session without a nonce through.
StateMismatch_NoCompare(saved_state, state) == ~Truthy(saved_state)
StateMismatch_And(saved_state, state) == Truthy(saved_state) /\ state # saved_state

\* if not saved_state or state != saved_state
StateMismatch(saved_state, state) == ~Truthy(saved_state) \/ state # saved_state

\* Variant that swallows the exception of the exchange.
ExchangeFailed_Swallowed(outcome) == FALSE

\* except Exception as e
ExchangeFailed(outcome) == outcome.raised

\* Variant that stores the string form of every payload.
AuthResult_AlwaysText(result) == result.text

\* result.get("response", {}) if isinstance(result, dict) else str(result)
AuthResult(result) ==
    IF result.isdict THEN GetDefault(result.items, "response", EmptyDict)
    ELSE result.text

\* Variant that forgets to drop the Pending Login.
PromoteSession_KeepsPending(sess, username, result) ==
    Put(Put(sess, "authenticated_user", username), "auth_result", AuthResult(result))

\* Variant that drops the nonce and keeps the pending username.
PromoteSession_KeepsUsername(sess, username, result) ==
    Put(Put(Pop(sess, "duo_state"), "authenticated_user", username),
        "auth_result", AuthResult(result))

\* The session after a successful exchange.
PromoteSession(sess, username, result) ==
    Put(Put(Pop(Pop(sess, "duo_state"), "duo_username"),
            "authenticated_user", username),
        "auth_result", AuthResult(result))

\* Variant that drops the Pending Login before it calls the exchange.
duo_callback_ClearsFirst(config_error, sess, args, outcome) ==
    LET duo_code == Get(args, "duo_code")
        state == Get(args, "state")
        saved_state == Get(sess, "duo_state")
        username == Get(sess, "duo_username")
    IN
    IF Truthy(config_error)
    THEN [resp |-> ErrorPage(config_error), sess |-> sess,
          trace |-> <<"config_error">>, exch |-> NoExchange]
    ELSE IF ParamsMissing(duo_code, state)
    THEN [resp |-> Render("error.html", 400, Str(<<"Missing parameters from Duo">>),
                          PyNone, PyNone),
          sess |-> sess,
          trace |-> <<"config_error", "params">>, exch |-> NoExchange]
    ELSE IF StateMismatch(saved_state, state)
    THEN [resp |-> Render("error.html", 403, Str(<<"State mismatch">>),
                          PyNone, PyNone),
          sess |-> sess,
          trace |-> <<"config_error", "params", "state">>, exch |-> NoExchange]
    ELSE IF ExchangeFailed(outcome)
    THEN [resp |-> Render("error.html", 401, Str(<<"Duo authentication failed">>),
                          PyNone, PyNone),
          sess |-> Pop(Pop(sess, "duo_state"), "duo_username"),
          trace |-> <<"config_error", "params", "state", "exchange">>,
          exch |-> [called |-> TRUE, duo_code |-> duo_code,
                    username |-> username, raised |-> outcome.raised]]
    ELSE [resp |-> Redirect(url_for("dashboard")),
          sess |-> PromoteSession(sess, username, outcome.result),
          trace |-> <<"config_error", "params", "state", "exchange">>,
          exch |-> [called |-> TRUE, duo_code |-> duo_code,
                    username |-> username, raised |-> outcome.raised]]

duo_callback(config_error, sess, args, outcome) ==
    LET duo_code == Get(args, "duo_code")
        state == Get(args, "state")
        saved_state == Get(sess, "duo_state")
        username == Get(sess, "duo_username")
    IN
    IF Truthy(config_error)
    THEN [resp |-> ErrorPage(config_error), sess |-> sess,
          trace |-> <<"config_error">>, exch |-> NoExchange]
    ELSE IF ParamsMissing(duo_code, state)
    THEN [resp |-> Render("error.html", 400, Str(<<"Missing parameters from Duo">>),
                          PyNone, PyNone),
          sess |-> sess,
          trace |-> <<"config_error", "params">>, exch |-> NoExchange]
    ELSE IF StateMismatch(saved_state, state)
    THEN [resp |-> Render("error.html", 403, Str(<<"State mismatch">>),
                          PyNone, PyNone),
          sess |-> sess,
          trace |-> <<"config_error", "params", "state">>, exch |-> NoExchange]
    ELSE IF ExchangeFailed(outcome)
    THEN [resp |-> Render("error.html", 401, Str(<<"Duo authentication failed">>),
                          PyNone, PyNone),
          sess |-> sess,
          trace |-> <<"config_error", "params", "state", "exchange">>,
          exch |-> [called |-> TRUE, duo_code |-> duo_code,
                    username |-> username, raised |-> outcome.raised]]
    ELSE [resp |-> Redirect(url_for("dashboard")),
          sess |-> PromoteSession(sess, username, outcome.result),
          trace |-> <<"config_error", "params", "state", "exchange">>,
          exch |-> [called |-> TRUE, duo_code |-> duo_code,
                    username |-> username, raised |-> outcome.raised]]

dashboard(config_error, sess) ==
    LET user == Get(sess, "authenticated_user") IN
    IF Truthy(config_error)
    THEN [resp |-> ErrorPage(config_error), sess |-> sess,
          trace |-> <<"config_error">>, exch |-> NoExchange]
    ELSE IF ~Truthy(user)
    THEN [resp |-> Redirect(url_for("index")), sess |-> sess,
          trace |-> <<"config_error">>, exch |-> NoExchange]
    ELSE [resp |-> Render("dashboard.html", 200, PyNone, user,
                          Get(sess, "auth_result")),
          sess |-> sess,
          trace |-> <<"config_error">>, exch |-> NoExchange]

\* Variant that drops the Pending Login only.
logout_PendingOnly(config_error, sess) ==
    [resp |-> Redirect(url_for("index")),
     sess |-> Pop(Pop(sess, "duo_state"), "duo_username"),
     trace |-> <<>>, exch |-> NoExchange]

\* session.clear(); no look at config_error.
logout(config_error, sess) ==
    [resp |-> Redirect(url_for("index")), sess |-> NoKeys,
     trace |-> <<>>, exch |-> NoExchange]

\* Flask answers 405 without running the view when the request's method is
\* not one the route was registered with.
Methods(route) == IF route \in {"/login", "/logout"} THEN {"POST"} ELSE {"GET"}
MethodNotAllowed(sess) ==
    [resp |-> Render("405", 405, PyNone, PyNone, PyNone), sess |-> sess,
     trace |-> <<>>, exch |-> NoExchange]

\* ------------------------------------------------------------------------
\* State
\* ------------------------------------------------------------------------
VARIABLES
    config_file,    \* config.json as the loader found it
    config_error,   \* module global: None or the diagnostic message
    duo_client,     \* module global: TRUE when a client handle exists
    secret_key,     \* app.secret_key
    session,        \* Flask session of each browser: a dict
    nonce_count,    \* calls of generate_state() so far
    nonce_owner,    \* history: the browser whose /login got the i-th nonce
    spent,          \* history: the states of the callbacks that succeeded
    last,           \* the request handled last and what the handler did
    login_user,     \* history, per browser: username the last /login stored
    verified        \* history, per browser: the last exchange the provider
                    \* accepted, with the username it was called with

vars ==
    <<config_file, config_error, duo_client, secret_key, session, nonce_count,
      nonce_owner, spent, last, login_user, verified>>

Browsers == {"A", "B"}
Routes == {"/", "/login", "/duo-callback", "/dashboard", "/logout"}
HttpMethods == {"GET", "POST"}

\* Inputs a browser can send.
RECURSIVE SeqsUpTo(_, _)
SeqsUpTo(alphabet, n) ==
    IF n = 0 THEN {<<>>}
    ELSE LET shorter == SeqsUpTo(alphabet, n - 1)
         IN  shorter \cup {Append(q, c) : q \in shorter, c \in alphabet}
RawUsernames == {Str(q) : q \in SeqsUpTo({" ", "a"}, MaxLen)}
Forms == {NoKeys} \cup {[k \in {"username"} |-> u] : u \in RawUsernames}
CodeParams == {PyNone, EmptyStr, ValidCode, BadCode}
StateParams == {PyNone, EmptyStr, Str(<<"WRONG">>)} \cup Nonces
QueryOf(code, state) ==
    [k \in {x \in {"duo_code", "state"} :
                (x = "duo_code" /\ code # PyNone) \/ (x = "state" /\ state # PyNone)}
        |-> IF k = "duo_code" THEN code ELSE state]
Queries == {QueryOf(c, st) : c \in CodeParams, st \in StateParams}

NotVerified == [ok |-> FALSE, username |-> PyNone, pending |-> PyNone]

NoRequest ==
    [sid |-> "A", route |-> "none", method |-> "GET", args |-> NoKeys,
     form |-> NoKeys, pre |-> NoKeys, follows_logout |-> FALSE,
     resp |-> Render("none", 0, PyNone, PyNone, PyNone),
     trace |-> <<>>, exch |-> NoExchange, health |-> "none", payload |-> NoResult]

Init ==
    /\ config_file \in ConfigFiles
    /\ config_error = LoadConfig(config_file).config_error
    /\ duo_client = LoadConfig(config_file).duo_client
    /\ secret_key = LoadConfig(config_file).secret_key
    /\ session = [b \in Browsers |-> NoKeys]
    /\ nonce_count = 0
    /\ nonce_owner = <<>>
    /\ spent = {}
    /\ last = NoRequest
    /\ login_user = [b \in Browsers |-> PyNone]
    /\ verified = [b \in Browsers |-> NotVerified]

\* The outcome r of a view together with what the provider did during the
\* request: the outcome of the health check ("none" when it was not called)
\* and the payload the exchange returned (NoResult when it returned none).
WithProvider(r, health, payload) ==
    [resp |-> r.resp, sess |-> r.sess, trace |-> r.trace, exch |-> r.exch,
     health |-> health, payload |-> payload]
HasStep(trace, step) == \E i \in DOMAIN trace : trace[i] = step

\* The environment of a run: the requests browsers send, the payloads the
\* provider returns and how much of a handled request is kept in last.
\* FullEnv has every input of the sets above.  BriefEnv, for runs with two
\* browsers, has two usernames, both codes with every nonce as state and one
\* payload, and keeps of a request who sent it where, its state parameter,
\* the status and the exchange call.
FullEnv ==
    [view |-> "full", forms |-> Forms, queries |-> Queries,
     results |-> ExchangeResults]
BriefEnv ==
    [view |-> "brief",
     forms |-> {NoKeys} \cup {[k \in {"username"} |-> u] :
                                 u \in {Str(<<"a">>), Str(<<"a", "a">>)}},
     queries |-> {NoKeys} \cup {QueryOf(c, st) : c \in {ValidCode, BadCode},
                                                st \in Nonces},
     results |-> {r \in ExchangeResults : "response" \in DOMAIN r.items}]

\* What last keeps of the handled request r.
Observed(view, r) ==
    IF view = "full" THEN r
    ELSE [r EXCEPT !.args = [k \in (DOMAIN r.args) \cap {"state"} |-> r.args[k]],
                   !.form = NoKeys,
                   !.pre = NoKeys,
                   !.follows_logout = FALSE,
                   !.resp = Render("brief", r.resp.status, PyNone, PyNone, PyNone),
                   !.trace = <<>>,
                   !.health = "none",
                   !.payload = NoResult]

\* Variant that keeps one session for all browsers.
Serve_SharedSession(b, env, route, method, args, form, out) ==
    /\ session' = [x \in Browsers |-> out.sess]
    /\ last' = Observed(env.view,
                   [sid |-> b, route |-> route, method |-> method, args |-> args,
                    form |-> form, pre |-> session[b],
                    follows_logout |->
                        (last.sid = b /\ last.route = "/logout" /\ last.method = "POST"),
                    resp |-> out.resp,
                    trace |-> out.trace, exch |-> out.exch,
                    health |-> out.health, payload |-> out.payload])
    /\ UNCHANGED <<config_file, config_error, duo_client, secret_key>>

\* One request of browser b, answered with outcome out.
Serve(b, env, route, method, args, form, out) ==
    /\ session' = [session EXCEPT ![b] = out.sess]
    /\ last' = Observed(env.view,
                   [sid |-> b, route |-> route, method |-> method, args |-> args,
                    form |-> form, pre |-> session[b],
                    follows_logout |->
                        (last.sid = b /\ last.route = "/logout" /\ last.method = "POST"),
                    resp |-> out.resp,
                    trace |-> out.trace, exch |-> out.exch,
                    health |-> out.health, payload |-> out.payload])
    /\ UNCHANGED <<config_file, config_error, duo_client, secret_key>>

Index(b, env) ==
    \E method \in HttpMethods :
        /\ Serve(b, env, "/", method, NoKeys, NoKeys,
                 WithProvider(IF method \in Methods("/")
                              THEN index(config_error, session[b])
                              ELSE MethodNotAllowed(session[b]),
                              "none", NoResult))
        /\ UNCHANGED <<nonce_count, nonce_owner, spent, login_user, verified>>

\* The outcome of the handler is bound once per request (\E over a singleton)
\* so that it is computed once for all the conjuncts that read it.
Login(b, env) ==
    \E method \in HttpMethods, form \in env.forms, health \in HealthOutcomes :
        /\ method \notin Methods("/login") => (form = NoKeys /\ health = "ok")
        /\ \E out \in {IF method \in Methods("/login")
                       THEN login(config_error, session[b], form, health,
                                  generate_state(nonce_count + 1))
                       ELSE MethodNotAllowed(session[b])} :
           \E generated \in {HasStep(out.trace, "generate_state")},
              checked \in {HasStep(out.trace, "health_check")} :
               /\ generated => nonce_count < MaxNonce
               /\ ~checked => health = "ok"
               /\ Serve(b, env, "/login", method, NoKeys, form,
                        WithProvider(out, IF checked THEN health ELSE "none",
                                     NoResult))
               /\ nonce_count' = IF generated THEN nonce_count + 1 ELSE nonce_count
               /\ nonce_owner' = IF generated THEN Append(nonce_owner, b)
                                 ELSE nonce_owner
               /\ login_user' = IF generated
                                THEN [login_user EXCEPT
                                         ![b] = Get(out.sess, "duo_username")]
                                ELSE login_user
               /\ UNCHANGED <<spent, verified>>

DuoCallback(b, env) ==
    \E method \in HttpMethods, args \in env.queries :
        /\ method \notin Methods("/duo-callback") => args = NoKeys
        /\ \E outcome \in ExchangeOutcomes(Get(args, "duo_code")) :
           /\ ~outcome.raised => outcome.result \in env.results
           /\ \E out \in {IF method \in Methods("/duo-callback")
                          THEN duo_callback(config_error, session[b], args, outcome)
                          ELSE MethodNotAllowed(session[b])} :
              \E accepted \in {out.exch.called /\ ~outcome.raised} :
                  /\ ~out.exch.called => outcome.raised
                  /\ Serve(b, env, "/duo-callback", method, args, NoKeys,
                           WithProvider(out, "none",
                                        IF accepted THEN outcome.result
                                        ELSE NoResult))
                  /\ verified' =
                         IF accepted
                         THEN [verified EXCEPT ![b] =
                                  [ok |-> TRUE, username |-> out.exch.username,
                                   pending |-> login_user[b]]]
                         ELSE verified
                  /\ spent' = IF accepted THEN spent \cup {Get(args, "state")}
                              ELSE spent
                  /\ UNCHANGED <<nonce_count, nonce_owner, login_user>>

Dashboard(b, env) ==
    \E method \in HttpMethods :
        /\ Serve(b, env, "/dashboard", method, NoKeys, NoKeys,
                 WithProvider(IF method \in Methods("/dashboard")
                              THEN dashboard(config_error, session[b])
                              ELSE MethodNotAllowed(session[b]),
                              "none", NoResult))
        /\ UNCHANGED <<nonce_count, nonce_owner, spent, login_user, verified>>

Logout(b, env) ==
    \E method \in HttpMethods :
        /\ Serve(b, env, "/logout", method, NoKeys, NoKeys,
                 WithProvider(IF method \in Methods("/logout")
                              THEN logout(config_error, session[b])
                              ELSE MethodNotAllowed(session[b]),
                              "none", NoResult))
        /\ UNCHANGED <<nonce_count, nonce_owner, spent, login_user, verified>>

\* Every request browser b can send.
Request(b, env) ==
    \/ Index(b, env)
    \/ Login(b, env)
    \/ DuoCallback(b, env)
    \/ Dashboard(b, env)
    \/ Logout(b, env)

\* One browser session.
Next == Request("A", FullEnv)
Spec == Init /\ [][Next]_vars

\* Two browser sessions whose requests interleave, observed briefly.
NextTwo == \E b \in Browsers : Request(b, BriefEnv)
SpecTwo == Init /\ [][NextTwo]_vars

\* ------------------------------------------------------------------------
\* Properties
\* ------------------------------------------------------------------------
ConfigOk == ~Truthy(config_error)
\* The view of route r ran for the last request.
Ran(r) == last.route = r /\ last.method \in Methods(r)
HasParam(k) == k \in DOMAIN last.args /\ last.args[k] # EmptyStr
HasNonce(sess) == "duo_state" \in DOMAIN sess
HasPendingLogin(sess) == HasNonce(sess) \/ "duo_username" \in DOMAIN sess
IsAuthenticated(sess) == "authenticated_user" \in DOMAIN sess
\* Position of step in the trace of the last request, 0 when absent.
StepAt(step) ==
    IF \E i \in DOMAIN last.trace : last.trace[i] = step
    THEN CHOOSE i \in DOMAIN last.trace : last.trace[i] = step
    ELSE 0
IsDiagnostic(resp) ==
    resp.status = 500 /\ resp.page = "error.html" /\ resp.error = config_error

\* C1 (as claimed): when the configuration error is set, every route, called
\* with its own method, answers 500 with the diagnostic page, runs nothing
\* beyond the check of the error value and leaves the session alone.
C1_EveryRouteAnswers500 ==
    (Truthy(config_error) /\ last.route \in Routes /\ Ran(last.route))
        => /\ IsDiagnostic(last.resp)
           /\ last.trace = <<"config_error">>
           /\ session[last.sid] = last.pre

\* C2 (as claimed, here already restricted to a valid configuration): a
\* /duo-callback request that carries a duo_code and whose state parameter
\* differs from the nonce stored in the session gets 403.
C2_MismatchAlways403 ==
    (ConfigOk /\ Ran("/duo-callback") /\ HasParam("duo_code")
        /\ Get(last.args, "state") # Get(last.pre, "duo_state"))
        => last.resp.status = 403

\* C2 (amended): with no configuration error, a /duo-callback request whose
\* duo_code and state are both non-empty and whose state differs from the
\* nonce stored in the session gets 403, calls no exchange and leaves the
\* session as it was, whether the duo_code is valid or not; when the state
\* parameter is missing or empty the answer is 400, and with the
\* configuration error set it is 500.
C2_MismatchGives403 ==
    (Ran("/duo-callback") /\ "duo_code" \in DOMAIN last.args
        /\ Get(last.args, "state") # Get(last.pre, "duo_state"))
        => /\ last.resp.status # 302
           /\ ~last.exch.called
           /\ session[last.sid] = last.pre
           /\ last.resp.status =
                 IF ~ConfigOk THEN 500
                 ELSE IF HasParam("duo_code") /\ HasParam("state") THEN 403
                 ELSE 400

C2_Witness ==
    /\ ConfigOk /\ Ran("/duo-callback")
    /\ Get(last.args, "duo_code") = ValidCode
    /\ HasNonce(last.pre) /\ HasParam("state")
    /\ last.args["state"] \in Nonces
    /\ last.args["state"] # last.pre["duo_state"]
    /\ last.resp.status = 403

\* C3 (as claimed, here already restricted to a valid configuration): a
\* /duo-callback request in a session without a Pending Login gets 403
\* whatever values its duo_code and state parameters have.
C3_NoPendingAlways403 ==
    (ConfigOk /\ Ran("/duo-callback") /\ ~HasPendingLogin(last.pre)
        /\ DOMAIN last.args = {"duo_code", "state"})
        => last.resp.status = 403

\* C3 (amended): with no configuration error, a /duo-callback request in a
\* session without a Pending Login gets 403 for every non-empty duo_code and
\* non-empty state, and 400 when either is missing or empty; no exchange is
\* called and the session is left as it was.
C3_NoPendingGives403 ==
    (ConfigOk /\ Ran("/duo-callback") /\ ~HasPendingLogin(last.pre))
        => /\ last.resp.status =
                 IF HasParam("duo_code") /\ HasParam("state") THEN 403 ELSE 400
           /\ ~last.exch.called
           /\ session[last.sid] = last.pre

\* A callback that replays the nonce of a handshake that already succeeded.
C3_Witness ==
    /\ ConfigOk /\ Ran("/duo-callback")
    /\ ~HasPendingLogin(last.pre) /\ IsAuthenticated(last.pre)
    /\ Get(last.args, "duo_code") = ValidCode
    /\ Get(last.args, "state") \in Nonces
    /\ last.resp.status = 403

\* C4: the code exchange is called only by /duo-callback, after the state
\* check, with the request's duo_code, and only when the session held a nonce
\* equal to the request's state parameter.
C4_ExchangeOnlyAfterStateCheck ==
    last.exch.called
        => /\ Ran("/duo-callback")
           /\ StepAt("state") > 0 /\ StepAt("state") < StepAt("exchange")
           /\ HasNonce(last.pre)
           /\ Get(last.args, "state") = last.pre["duo_state"]
           /\ last.exch.duo_code = Get(last.args, "duo_code")

C4_Witness ==
    /\ last.exch.called /\ last.exch.raised
    /\ last.exch.duo_code = BadCode
    /\ Get(last.args, "state") = Get(last.pre, "duo_state")

\* C5: a session is authenticated only if the provider accepted an exchange
\* requested by a /duo-callback of that session, and the authenticated
\* username is the one that exchange was called with, which is the one the
\* session's last /login had stored.
C5_AuthenticatedOnlyByExchange ==
    \A b \in Browsers :
        IsAuthenticated(session[b])
            => /\ verified[b].ok
               /\ session[b]["authenticated_user"] = verified[b].username
               /\ session[b]["authenticated_user"] = verified[b].pending

\* Authenticated as "aa" while a later /login has stored "a".
C5_Witness ==
    /\ IsAuthenticated(session["A"])
    /\ session["A"]["authenticated_user"] = Str(<<"a", "a">>)
    /\ login_user["A"] = Str(<<"a">>)

\* u is raw without its leading and trailing blanks.
IsTrimOf(u, raw) ==
    LET r == Tail(raw)
        c == Tail(u)
    IN  /\ u[1] = "str"
        /\ c # <<>> => (c[1] # " " /\ c[Len(c)] # " ")
        /\ \E i \in 1..(Len(r) + 1), j \in 0..Len(r) :
              /\ c = SubSeq(r, i, j)
              /\ \A k \in 1..Len(r) : (k < i \/ k > j) => r[k] = " "
IsBlank(raw) == \A k \in 2..Len(raw) : raw[k] = " "
ExchangeSucceeded == Ran("/duo-callback") /\ last.exch.called /\ ~last.exch.raised

\* /login, when it redirects to the provider, has stored the submitted
\* username without its surrounding blanks.
C6_LoginStoresSubmitted ==
    (Ran("/login") /\ last.resp.status = 302)
        => /\ "username" \in DOMAIN last.form
           /\ IsTrimOf(Get(session[last.sid], "duo_username"), last.form["username"])
           /\ login_user[last.sid] = Get(session[last.sid], "duo_username")
\* After a callback whose exchange succeeded: no Pending Login key, the
\* authenticated username is the one /login stored, redirect to /dashboard.
C6_AfterSuccess ==
    ExchangeSucceeded
        => /\ ~HasPendingLogin(session[last.sid])
           /\ Get(session[last.sid], "authenticated_user") = login_user[last.sid]
           /\ "auth_result" \in DOMAIN session[last.sid]
           /\ last.resp = Redirect(Str(<<"/dashboard">>))
\* A GET /dashboard that follows it shows that username and the stored result.
C6_ThenDashboard ==
    (ExchangeSucceeded /\ last'.sid = last.sid
        /\ last'.route = "/dashboard" /\ last'.method = "GET")
        => /\ last'.resp.status = 200
           /\ last'.resp.page = "dashboard.html"
           /\ last'.resp.user = login_user[last.sid]
           /\ last'.resp.auth_result = session[last.sid]["auth_result"]

\* C6: after a /duo-callback whose code exchange succeeds the session holds
\* no Pending Login key, its authenticated username is the (trimmed) username
\* submitted at /login and the response redirects to /dashboard; a following
\* GET /dashboard returns 200 with that username and the stored result.
C6_SuccessfulCallback ==
    /\ [](C6_LoginStoresSubmitted /\ C6_AfterSuccess)
    /\ [][C6_ThenDashboard]_vars

C6_Witness ==
    /\ ExchangeSucceeded
    /\ last.pre["duo_username"] = Str(<<"a">>)
    /\ session[last.sid]["authenticated_user"] = Str(<<"a">>)
    /\ session[last.sid]["auth_result"] = AllowResponse

\* C7 (as claimed): POST /login with an empty or blank username re-renders
\* the login form, calls no provider operation and leaves the session as it
\* was.
C7_BlankUsernameRerenders ==
    (Ran("/login") /\ IsBlank(GetDefault(last.form, "username", EmptyStr)))
        => /\ last.resp.page = "login.html"
           /\ last.resp.status = 200
           /\ session[last.sid] = last.pre
           /\ StepAt("health_check") = 0 /\ StepAt("generate_state") = 0
           /\ StepAt("create_auth_url") = 0

\* C7 (amended): with no configuration error, POST /login with an empty or
\* blank username re-renders the login form; with the configuration error
\* set it gets the 500 diagnostic page.  In both cases no provider operation
\* is called and the session is left as it was.
C7_BlankUsernameNoChange ==
    (Ran("/login") /\ IsBlank(GetDefault(last.form, "username", EmptyStr)))
        => /\ IF ConfigOk
              THEN last.resp.page = "login.html" /\ last.resp.status = 200
                   /\ last.resp.error = Str(<<"Username is required.">>)
              ELSE IsDiagnostic(last.resp)
           /\ session[last.sid] = last.pre
           /\ StepAt("health_check") = 0 /\ StepAt("generate_state") = 0
           /\ StepAt("create_auth_url") = 0

\* A blank, non-empty username sent from a session that holds a Pending Login.
C7_Witness ==
    /\ ConfigOk /\ Ran("/login")
    /\ Get(last.form, "username") = Str(<<" ">>)
    /\ HasPendingLogin(last.pre)
    /\ last.resp.page = "login.html"

\* C8 (as claimed): a GET /dashboard that immediately follows a POST /logout
\* of the same session is answered with a redirect to /.
C8_LogoutThenDashboardRedirects ==
    (Ran("/dashboard") /\ last.follows_logout)
        => last.resp = Redirect(Str(<<"/">>))

\* C8 (amended): with no configuration error, a GET /dashboard that
\* immediately follows a POST /logout of the same session is answered with a
\* redirect to /; with the configuration error set it is answered with the
\* 500 diagnostic page.
C8_LogoutThenDashboard ==
    (Ran("/dashboard") /\ last.follows_logout)
        => /\ last.resp = IF ConfigOk THEN Redirect(Str(<<"/">>))
                          ELSE ErrorPage(config_error)
           /\ session[last.sid] = NoKeys

C8_Witness ==
    /\ ConfigOk /\ Ran("/dashboard") /\ last.follows_logout
    /\ verified[last.sid].ok
    /\ last.resp.status = 302

\* C9: with a valid configuration the status of /duo-callback is 400 when
\* duo_code or state is missing or empty; otherwise 403 when the session has
\* no nonce or the state differs from it; otherwise 401 when the exchange
\* fails; otherwise 302 to /dashboard.  The exchange is called only when the
\* first two checks pass.
C9_CallbackStatusOrder ==
    (ConfigOk /\ Ran("/duo-callback"))
        => IF ~(HasParam("duo_code") /\ HasParam("state"))
           THEN last.resp.status = 400 /\ ~last.exch.called
           ELSE IF ~HasNonce(last.pre) \/ last.args["state"] # last.pre["duo_state"]
           THEN last.resp.status = 403 /\ ~last.exch.called
           ELSE /\ last.exch.called
                /\ IF last.exch.raised
                   THEN last.resp.status = 401
                   ELSE last.resp = Redirect(Str(<<"/dashboard">>))

\* Both the first and the second check fail: the answer is that of the first.
C9_Witness ==
    /\ ConfigOk /\ Ran("/duo-callback")
    /\ ~HasParam("duo_code")
    /\ Get(last.args, "state") = Str(<<"WRONG">>)
    /\ HasNonce(last.pre)
    /\ last.resp.status = 400

\* C10: a /duo-callback request answered 400, 403 or 401 leaves the session
\* exactly as it was before the request.
C10_FailedCallbackKeepsSession ==
    (Ran("/duo-callback") /\ last.resp.status \in {400, 401, 403})
        => session[last.sid] = last.pre

\* A failed exchange in a session that holds a Pending Login and an
\* Authenticated Session.
C10_Witness ==
    /\ Ran("/duo-callback") /\ last.resp.status = 401
    /\ HasNonce(last.pre) /\ IsAuthenticated(last.pre)
    /\ last.exch.duo_code = ValidCode

\* The browser whose /login was given nonce n, "none" when n was never issued.
OwnerOf(n) ==
    IF \E i \in DOMAIN nonce_owner : generate_state(i) = n
    THEN nonce_owner[CHOOSE i \in DOMAIN nonce_owner : generate_state(i) = n]
    ELSE "none"
\* A request of one browser leaves the sessions of the others as they were.
C11_OthersUntouched ==
    \A b \in Browsers : b # last'.sid => session'[b] = session[b]
\* The nonce a session holds was issued to that session, the exchange is
\* called only for a state issued to the calling session, and a session is
\* authenticated only by an exchange of its own.
C11_OwnNonceOnly ==
    /\ \A b \in Browsers :
          /\ HasNonce(session[b]) => OwnerOf(session[b]["duo_state"]) = b
          /\ IsAuthenticated(session[b]) => verified[b].ok
    /\ last.exch.called => OwnerOf(Get(last.args, "state")) = last.sid

\* C11: with two browser sessions whose requests interleave, a request of one
\* session never changes the other session, a nonce issued to one session is
\* never accepted by a callback of the other, and a successful callback of
\* one never authenticates the other.
C11_SessionsIsolated ==
    /\ []C11_OwnNonceOnly
    /\ [][C11_OthersUntouched]_vars

\* B's callback carries the nonce A holds, B holds one of its own: 403.
C11_Witness ==
    /\ last.sid = "B" /\ Ran("/duo-callback")
    /\ HasNonce(session["A"]) /\ HasNonce(session["B"])
    /\ Get(last.args, "state") = session["A"]["duo_state"]
    /\ last.resp.status = 403
    /\ ~IsAuthenticated(session["B"])

\* The state of a browser session in the terms of the state machine.
Class(sess) ==
    IF HasPendingLogin(sess)
    THEN (IF IsAuthenticated(sess) THEN "Both" ELSE "PendingLogin")
    ELSE (IF IsAuthenticated(sess) THEN "Authenticated" ELSE "Anonymous")
Change(b) == <<Class(session[b]), Class(session'[b])>>

\* C12 (as claimed): the state of a session changes only from Anonymous to
\* PendingLogin, from PendingLogin to Authenticated, from Authenticated to
\* Anonymous or from PendingLogin to Anonymous, and no session holds a
\* Pending Login and an Authenticated Session at the same time.
C12_ThreeStateMachine ==
    /\ [](\A b \in Browsers : Class(session[b]) # "Both")
    /\ [][\A b \in Browsers :
            Class(session'[b]) # Class(session[b])
                => Change(b) \in {<<"Anonymous", "PendingLogin">>,
                                  <<"PendingLogin", "Authenticated">>,
                                  <<"Authenticated", "Anonymous">>,
                                  <<"PendingLogin", "Anonymous">>}]_vars

\* C12 (amended): a session can hold a Pending Login and an Authenticated
\* Session together (Both).  Its state changes only by a /login that
\* redirects to the provider (Anonymous to PendingLogin, Authenticated to
\* Both), by a /duo-callback whose exchange succeeds (PendingLogin or Both to
\* Authenticated) and by POST /logout (any state to Anonymous); every other
\* request, a failed callback included, leaves it in the state it was in.
C12_SessionStep ==
    \A b \in Browsers :
        LET sent == last'.sid = b /\ last'.method \in Methods(last'.route)
            loggedIn == sent /\ last'.route = "/login" /\ last'.resp.status = 302
            exchanged == sent /\ last'.route = "/duo-callback"
                            /\ last'.exch.called /\ ~last'.exch.raised
            loggedOut == sent /\ last'.route = "/logout"
        IN  /\ loggedIn => Change(b) \in {<<"Anonymous", "PendingLogin">>,
                                          <<"PendingLogin", "PendingLogin">>,
                                          <<"Authenticated", "Both">>,
                                          <<"Both", "Both">>}
            /\ exchanged => Change(b) \in {<<"PendingLogin", "Authenticated">>,
                                           <<"Both", "Authenticated">>}
            /\ loggedOut => Class(session'[b]) = "Anonymous"
            /\ ~(loggedIn \/ exchanged \/ loggedOut)
                   => Class(session'[b]) = Class(session[b])
C12_SessionStateMachine == [][C12_SessionStep]_vars

\* /login has just redirected an authenticated session to the provider.
C12_Witness ==
    /\ Ran("/login") /\ last.resp.status = 302
    /\ Class(last.pre) = "Authenticated"
    /\ Class(session[last.sid]) = "Both"

\* C13 (as claimed): once a /duo-callback has been handled in a session that
\* held a Pending Login, the session no longer holds that Pending Login,
\* whether the callback succeeded or failed.
C13_PendingGoneAfterCallback ==
    (Ran("/duo-callback") /\ HasNonce(last.pre))
        => Get(session[last.sid], "duo_state") # last.pre["duo_state"]

\* C13 (amended): a /duo-callback whose exchange succeeds removes the Pending
\* Login from the session; a /duo-callback that fails (400, 403, 401, or 500
\* with the configuration error set) leaves the Pending Login in the session
\* as it was, so it can outlive any number of failed callbacks.
C13_PendingGoneOnSuccessOnly ==
    (Ran("/duo-callback") /\ HasNonce(last.pre))
        => IF last.exch.called /\ ~last.exch.raised
           THEN ~HasPendingLogin(session[last.sid])
           ELSE /\ last.resp.status \in {400, 401, 403, 500}
                /\ Get(session[last.sid], "duo_state") = last.pre["duo_state"]
                /\ Get(session[last.sid], "duo_username") = last.pre["duo_username"]

\* A callback with the right state whose exchange failed: the Pending Login
\* is still there.
C13_Witness ==
    /\ Ran("/duo-callback") /\ last.resp.status = 401
    /\ HasNonce(last.pre) /\ ~IsAuthenticated(last.pre)
    /\ last.exch.duo_code = BadCode
    /\ HasNonce(session[last.sid])

\* Number of times step occurs in the trace of the last request.
Calls(step) == Cardinality({i \in DOMAIN last.trace : last.trace[i] = step})

\* C14: when the health check fails during POST /login the login form is
\* re-rendered with the provider error, the session is left as it was, no
\* nonce is generated, no authorization URL is requested and the health
\* check is called exactly once.
C14_HealthCheckFailure ==
    (Ran("/login") /\ last.health = "raise")
        => /\ last.resp.page = "login.html"
           /\ last.resp.error = Str(<<"Duo health check failed">>)
           /\ session[last.sid] = last.pre
           /\ Calls("health_check") = 1
           /\ Calls("generate_state") = 0
           /\ Calls("create_auth_url") = 0

\* The health check fails for a session that holds a Pending Login already.
C14_Witness ==
    /\ Ran("/login") /\ last.health = "raise"
    /\ HasNonce(last.pre)
    /\ Get(last.form, "username") = Str(<<" ", "a">>)
    /\ last.resp.user = Str(<<"a">>)

\* The nonce the i-th call of generate_state returned was issued before now.
Issued(n) == \E i \in 1..nonce_count : generate_state(i) = n
\* A /login that redirected a session that held a Pending Login already.
SecondLogin == Ran("/login") /\ last.resp.status = 302 /\ HasNonce(last.pre)
\* A callback that carries a code and a state, as the provider sends it.
ProviderCallback ==
    ConfigOk /\ Ran("/duo-callback") /\ HasParam("duo_code") /\ HasParam("state")

\* C15: a /login that redirects to the provider replaces the Pending Login
\* the session held: the session then holds the new nonce and the new
\* username and everything else as before; a callback that carries an
\* earlier nonce gets 403 without an exchange, and a callback that carries
\* the nonce of the last /login exchanges the code for the username of that
\* /login.
C15_LoginReplacesPending ==
    /\ SecondLogin
          => /\ session[last.sid]["duo_state"] = generate_state(nonce_count)
             /\ session[last.sid]["duo_state"] # last.pre["duo_state"]
             /\ IsTrimOf(session[last.sid]["duo_username"], last.form["username"])
             /\ session[last.sid] =
                   Put(Put(last.pre, "duo_state", session[last.sid]["duo_state"]),
                       "duo_username", session[last.sid]["duo_username"])
    /\ (ProviderCallback /\ Issued(last.args["state"])
           /\ last.args["state"] # generate_state(nonce_count))
          => last.resp.status = 403 /\ ~last.exch.called
    /\ (ProviderCallback /\ nonce_count > 0 /\ HasNonce(last.pre)
           /\ last.args["state"] = generate_state(nonce_count))
          => /\ last.exch.called
             /\ last.exch.username = login_user[last.sid]
             /\ last.exch.username = last.pre["duo_username"]

\* After two logins, "a" then "aa", a callback carries the first nonce.
C15_Witness ==
    /\ ProviderCallback
    /\ last.args["state"] = generate_state(1)
    /\ Get(last.pre, "duo_state") = generate_state(2)
    /\ Get(last.pre, "duo_username") = Str(<<"a", "a">>)
    /\ Get(last.args, "duo_code") = ValidCode
    /\ last.resp.status = 403

\* C16: POST /logout, from every session state and whatever the
\* configuration, leaves the session without any key and redirects to /;
\* a POST /logout that follows another one, or that finds an empty session,
\* gives the same empty session and the same redirect.
C16_LogoutClearsAll ==
    Ran("/logout")
        => /\ session[last.sid] = NoKeys
           /\ DOMAIN session[last.sid] = {}
           /\ last.resp = Redirect(Str(<<"/">>))
           /\ last.resp.status = 302
           /\ last.follows_logout => last.pre = NoKeys

\* Logout of a session that holds a Pending Login and an Authenticated
\* Session.
C16_Witness ==
    /\ Ran("/logout")
    /\ HasNonce(last.pre) /\ IsAuthenticated(last.pre)
    /\ session[last.sid] = NoKeys

\* Some required field of the file is absent, empty or a placeholder (a file
\* that could not be read or parsed has no field at all).
SomeFieldDefective(file) ==
    \E k \in RequiredSet :
        \/ k \notin DOMAIN file.config
        \/ file.config[k] = EmptyStr
        \/ (k \in DOMAIN PLACEHOLDER_VALUES /\ file.config[k] = PLACEHOLDER_VALUES[k])
\* Either the error is set and there is no client handle, or there is a
\* client handle and a signing key and no error.
OneOutcome ==
    \/ Truthy(config_error) /\ ~duo_client
    \/ ~Truthy(config_error) /\ duo_client /\ Truthy(secret_key)
ConfigFrozen ==
    /\ config_error' = config_error
    /\ duo_client' = duo_client
    /\ secret_key' = secret_key

\* C17 (as claimed): exactly one of the two outcomes holds, it never changes,
\* and the error is set exactly when some required field is absent, empty or
\* a placeholder.
C17_ErrorIffFieldDefective ==
    /\ [](OneOutcome /\ (Truthy(config_error) <=> SomeFieldDefective(config_file)))
    /\ [][ConfigFrozen]_vars

\* C17 (amended): exactly one of the two outcomes holds and it never changes;
\* the error is set exactly when the file is missing or is not JSON, or some
\* required field is absent, empty or a placeholder, or the constructor of
\* the client raises; without error the signing key is the configured one.
C17_ErrorIffLoadFailed ==
    /\ [](/\ OneOutcome
          /\ Truthy(config_error)
                <=> \/ config_file.status # "ok"
                    \/ SomeFieldDefective(config_file)
                    \/ config_file.ctor = "raise"
          /\ ConfigOk => secret_key = config_file.config["flask_secret_key"])
    /\ [][ConfigFrozen]_vars

\* Requests have been served with a placeholder left in the file.
C17_Witness ==
    /\ last.route = "/login"
    /\ config_file.status = "ok"
    /\ Get(config_file.config, "client_secret") = PLACEHOLDER_VALUES["client_secret"]
    /\ Truthy(config_error) /\ ~duo_client

\* The whole mapping items as one value, its entries in the order of keys.
RECURSIVE DictEntries(_, _)
DictEntries(items, keys) ==
    IF keys = <<>> THEN <<>>
    ELSE (IF Head(keys) \in DOMAIN items
          THEN <<Head(keys)>> \o items[Head(keys)] ELSE <<>>)
         \o DictEntries(items, Tail(keys))
Verbatim(result) ==
    IF result.isdict THEN <<"dict">> \o DictEntries(result.items, <<"response", "stat">>)
    ELSE result.text
DashboardShowsStored ==
    (Ran("/dashboard") /\ last.resp.status = 200)
        => last.resp.auth_result = Get(last.pre, "auth_result")

\* C18 (as claimed): after a successful exchange the stored provider result
\* is the whole payload when the payload is a mapping and its string form
\* when it is not, and /dashboard shows the stored value.
C18_PayloadStoredVerbatim ==
    /\ ExchangeSucceeded
          => session[last.sid]["auth_result"] = Verbatim(last.payload)
    /\ DashboardShowsStored

\* C18 (amended): after a successful exchange the stored provider result is
\* the value of the payload's "response" entry when the payload is a mapping
\* (an empty mapping when it has no such entry; the other entries are
\* dropped) and the payload's string form when it is not a mapping, and
\* /dashboard shows the stored value.
C18_ResponseEntryStored ==
    /\ ExchangeSucceeded
          => session[last.sid]["auth_result"] =
                IF ~last.payload.isdict THEN last.payload.text
                ELSE IF "response" \in DOMAIN last.payload.items
                THEN last.payload.items["response"]
                ELSE EmptyDict
    /\ DashboardShowsStored

\* The payload has a "response" entry and another one; only the first is
\* stored.
C18_Witness ==
    /\ ExchangeSucceeded
    /\ last.payload.isdict /\ DOMAIN last.payload.items = {"response", "stat"}
    /\ session[last.sid]["auth_result"] = <<"dict", "result", "allow">>

\* A callback that carries a code and a state that already authenticated.
Replay ==
    /\ last'.route = "/duo-callback" /\ last'.method = "GET"
    /\ "duo_code" \in DOMAIN last'.args /\ last'.args["duo_code"] # EmptyStr
    /\ "state" \in DOMAIN last'.args /\ last'.args["state"] \in spent

\* C19: once a /duo-callback with state n has succeeded, every later
\* /duo-callback that carries n and a code, the same or another, gets 403
\* without a call of the exchange and without a change of the session; a
\* later /login issues another nonce, so n is never accepted again.
C19_NonceAuthenticatesOnce ==
    [][/\ Replay => /\ last'.resp.status = 403
                    /\ ~last'.exch.called
                    /\ session' = session
       /\ \A b \in Browsers :
             ("duo_state" \in DOMAIN session'[b]) => session'[b]["duo_state"] \notin spent'
      ]_vars

\* The callback URL that authenticated the session is sent again, after a
\* /login has issued the next nonce.
C19_Witness ==
    /\ ProviderCallback
    /\ last.args["state"] = generate_state(1) /\ generate_state(1) \in spent
    /\ last.args["duo_code"] = ValidCode
    /\ Get(last.pre, "duo_state") = generate_state(2)
    /\ IsAuthenticated(last.pre)
    /\ last.resp.status = 403

\* C20: in every session the nonce and the pending username are both present
\* or both absent, and whenever the exchange is called the username it gets
\* is the non-empty username the last /login of that session stored.
C20_PendingKeysTogether ==
    /\ \A b \in Browsers :
          ("duo_state" \in DOMAIN session[b]) <=> ("duo_username" \in DOMAIN session[b])
    /\ \A b \in Browsers :
          HasNonce(session[b])
              => /\ Truthy(session[b]["duo_state"])
                 /\ Truthy(session[b]["duo_username"])
                 /\ session[b]["duo_username"] = login_user[b]
    /\ last.exch.called
          => /\ last.exch.username # PyNone
             /\ Len(last.exch.username) > 1 /\ last.exch.username[1] = "str"
             /\ last.exch.username[2] # " "
             /\ last.exch.username = login_user[last.sid]

\* The exchange is called for the username "aa" and returns a payload that
\* is not a mapping.
C20_Witness ==
    /\ last.exch.called /\ ~last.exch.raised
    /\ last.exch.username = Str(<<"a", "a">>)
    /\ ~HasPendingLogin(session[last.sid])
    /\ last.payload.isdict = FALSE

====
